---- MODULE Spec2Model ----
(***************************************************************************)
(* Model of src/workspace/my-simple-server.js, the pizzeria server         *)
(* (lines 29-401 of the file: the catalog, the cart, the four tools, the   *)
(* boot sequence and the HTTP cart view).                                  *)
(*                                                                         *)
(* Representation.                                                         *)
(*  - A string is a sequence of one-character strings, so that trim() and  *)
(*    toLowerCase() are computed character by character.                   *)
(*  - A price is a fixed-point number counted in thousandths of a euro     *)
(*    (8004 is 8.004 EUR); round2 rounds it to a whole number of cents.    *)
(*  - CART (a JavaScript Map, which iterates in insertion order) is a      *)
(*    sequence of entries [key, name, unitPrice, quantity].                *)
(*  - remove_from_cart writes to the cart twice (line 250, then lines 251  *)
(*    to 255); pc and cur record the handler's position between the two.   *)
(*  - req, resp, prev, committed, lastSnap and reads record the run: what   *)
(*    was asked last, what was answered, and the cart before and after.    *)
(*  - source is the text of the catalog file and loadError what          *)
(*    loadPizzas threw.  Spec leaves the file out (loadPizzas returns one  *)
(*    of Catalogs or throws); LoaderSpec boots on a file text, QuantitySpec *)
(*    passes add_to_cart's arguments through the input schema and HtmlSpec *)
(*    renders carts whose line is named with markup characters.            *)
(***************************************************************************)
EXTENDS Integers, Sequences, FiniteSets, TLC

VARIABLES
  PIZZAS,              \* line 111: the catalog, a sequence of pizzas
  CART,                \* line 113: the cart, in Map insertion order
  boot,                \* the next statement of the boot sequence (283-401)
  catalogLoaded,       \* line 285 has completed without throwing
  transportConnected,  \* line 294 has run
  httpListening,       \* line 399 has run
  exitCode,            \* -1 while the process runs, else process.exit's code
  source,              \* line 48: the text of the catalog file, when modelled
  loadError,           \* line 288: the error loadPizzas threw, if it did
  pc,                  \* position of the handler being run ("idle": none)
  cur,                 \* the arguments of the handler being run
  req,                 \* the last request dispatched to a handler
  resp,                \* the last response returned
  prev,                \* CART as it stood when req was dispatched
  committed,           \* CART after the last completed handler
  lastSnap,            \* the last snapshot read, while no add/remove succeeded since
  reads                \* snapshot reads since the last successful add/remove (2: two or more)

vars == <<PIZZAS, CART, boot, catalogLoaded, transportConnected, httpListening,
          exitCode, source, loadError, pc, cur, req, resp, prev, committed,
          lastSnap, reads>>

(***************************************************************************)
(* Bounds of the model.                                                    *)
(***************************************************************************)
\* the largest quantity of a request
MaxQty == 3

\* the most pizzas the cart holds: add_to_cart is not called beyond it
MaxUnits == 4

(***************************************************************************)
(* Strings.                                                                *)
(***************************************************************************)
LowerChar(c) ==
  CASE c = "M" -> "m"
    [] c = "B" -> "b"
    [] c = "C" -> "c"
    [] c = "G" -> "g"
    [] c = "T" -> "t"
    [] OTHER -> c

toLowerCase(s) == [i \in 1..Len(s) |-> LowerChar(s[i])]

RECURSIVE trimStart(_)
trimStart(s) ==
  IF s # <<>> /\ Head(s) = " " THEN trimStart(Tail(s)) ELSE s

RECURSIVE trimEnd(_)
trimEnd(s) ==
  IF s # <<>> /\ s[Len(s)] = " " THEN trimEnd(SubSeq(s, 1, Len(s) - 1)) ELSE s

trim(s) == trimEnd(trimStart(s))

(***************************************************************************)
(* The catalogs a successful loadPizzas can return: names trimmed by       *)
(* normalizePizza, prices numbers, lists of strings.  CatalogA has prices  *)
(* with three decimals; CatalogB holds two pizzas whose names differ only  *)
(* in case (nothing in loadPizzas forbids it); CatalogC is an empty file.  *)
(***************************************************************************)
Pizza(n, p, ing, al) ==
  [name |-> n, price |-> p, ingredients |-> ing, allergens |-> al]

CatalogA ==
  << Pizza(<<"M">>, 8004, << <<"T">>, <<"c">> >>, << <<"G">> >>),
     Pizza(<<"b">>, 12004, << <<"t">>, <<"k">> >>, << <<"g">>, <<"l">> >>),
     Pizza(<<"C">>, 9990, << <<"c">> >>, <<>>) >>

CatalogB ==
  << Pizza(<<"M">>, 8000, << <<"T">> >>, <<>>),
     Pizza(<<"m">>, 9000, << <<"T">> >>, <<>>) >>

CatalogC == <<>>

Catalogs == {CatalogA, CatalogB, CatalogC}

\* the names the callers type
ReqNames ==
  { <<"M">>, <<" ", "m", " ">>, <<"B">>, <<"c">>, <<"x">>, <<"m", " ", "b">> }

Quantities == 1..MaxQty

(***************************************************************************)
(* Map operations on the cart.                                             *)
(***************************************************************************)
MapHas(cart, k) == \E i \in 1..Len(cart) : cart[i].key = k

MapIndex(cart, k) == CHOOSE i \in 1..Len(cart) : cart[i].key = k

MapGet(cart, k) == cart[MapIndex(cart, k)]

\* Map.prototype.set: an existing key keeps its place, a new key goes last
MapSet(cart, k, v) ==
  IF MapHas(cart, k)
    THEN [cart EXCEPT ![MapIndex(cart, k)] = v]
    ELSE Append(cart, v)

RECURSIVE MapDelete(_, _)
MapDelete(cart, k) ==
  IF cart = <<>> THEN <<>>
  ELSE IF Head(cart).key = k THEN MapDelete(Tail(cart), k)
  ELSE <<Head(cart)>> \o MapDelete(Tail(cart), k)

MapKeys(cart) == [i \in 1..Len(cart) |-> cart[i].key]

(***************************************************************************)
(* Catalog lookup and pricing.                                             *)
(***************************************************************************)
null == [name |-> <<"n", "u", "l", "l">>, price |-> -1,
         ingredients |-> <<>>, allergens |-> <<>>]

RECURSIVE findIn(_, _)
findIn(pizzas, n) ==
  IF pizzas = <<>> THEN null
  ELSE IF toLowerCase(Head(pizzas).name) = n THEN Head(pizzas)
  ELSE findIn(Tail(pizzas), n)

findPizzaByName(name) == findIn(PIZZAS, toLowerCase(trim(name)))

\* Math.round(n * 100) / 100 on thousandths: to the nearest cent, halves up
round2(n) == ((n + 5) \div 10) * 10

cartToArray(cart) ==
  [i \in 1..Len(cart) |->
     [name |-> cart[i].name,
      unitPrice |-> cart[i].unitPrice,
      quantity |-> cart[i].quantity,
      lineTotal |-> round2(cart[i].unitPrice * cart[i].quantity)]]

RECURSIVE sumLineTotals(_)
sumLineTotals(items) ==
  IF items = <<>> THEN 0
  ELSE Head(items).lineTotal + sumLineTotals(Tail(items))

cartTotals(cart) ==
  LET items == cartToArray(cart)
  IN [items |-> items,
      subtotal |-> round2(sumLineTotals(items)),
      currency |-> "EUR"]

(***************************************************************************)
(* Requests and responses.                                                 *)
(***************************************************************************)
NoReq == [op |-> "none"]

NoResp == [kind |-> "none", isError |-> FALSE]

NoSnap == [items |-> <<>>, subtotal |-> -1, currency |-> "none"]

NoLine == [key |-> <<>>, name |-> <<>>, unitPrice |-> 0, quantity |-> 0]

NoCur == [quantity |-> 0, key |-> <<>>, current |-> NoLine]

ToolText(t) == [kind |-> "text", isError |-> FALSE, text |-> t]

ToolError(t) == [kind |-> "text", isError |-> TRUE, text |-> t]

HttpResponse(status, contentType, body) ==
  [kind |-> "http", isError |-> FALSE, status |-> status,
   contentType |-> contentType, body |-> body]

(***************************************************************************)
(* State after the module's top-level declarations have run (lines 103 to  *)
(* 278): an empty catalog, an empty cart, the tools registered, and the    *)
(* boot sequence about to load the catalog.                                *)
(***************************************************************************)
(***************************************************************************)
(* loadPizzas on a text catalog (lines 55-75), computed on the characters  *)
(* of the file.  A result is [ok |-> TRUE, pizzas] or, for a throw,        *)
(* [ok |-> FALSE, error], the error carrying the number its message shows. *)
(***************************************************************************)
\* String.prototype.indexOf for one character, counted from 1 (0: absent)
indexOf(s, c) ==
  IF \E i \in 1..Len(s) : s[i] = c
    THEN CHOOSE i \in 1..Len(s) : s[i] = c /\ \A j \in 1..(i - 1) : s[j] # c
    ELSE 0

\* String.prototype.split on a one-character separator
RECURSIVE split(_, _)
split(s, sep) ==
  LET i == indexOf(s, sep)
  IN IF i = 0
       THEN <<s>>
       ELSE <<SubSeq(s, 1, i - 1)>> \o split(SubSeq(s, i + 1, Len(s)), sep)

\* String.prototype.replace with a string pattern: the first occurrence only
replaceFirst(s, c, r) ==
  LET i == indexOf(s, c)
  IN IF i = 0 THEN s ELSE SubSeq(s, 1, i - 1) \o r \o SubSeq(s, i + 1, Len(s))

trimAll(q) == [i \in 1..Len(q) |-> trim(q[i])]

Digits == {"0", "1", "2", "3", "4", "5", "6", "7", "8", "9"}

DigitValue(c) ==
  CASE c = "0" -> 0 [] c = "1" -> 1 [] c = "2" -> 2 [] c = "3" -> 3
    [] c = "4" -> 4 [] c = "5" -> 5 [] c = "6" -> 6 [] c = "7" -> 7
    [] c = "8" -> 8 [] c = "9" -> 9

RECURSIVE digitsValue(_)
digitsValue(s) ==
  IF s = <<>> THEN 0
  ELSE digitsValue(SubSeq(s, 1, Len(s) - 1)) * 10 + DigitValue(s[Len(s)])

\* the fraction digits as thousandths (digits after the third are dropped)
thousandths(s) ==
  digitsValue(SubSeq(s \o <<"0", "0", "0">>, 1, 3))

NaN == [nan |-> TRUE, value |-> 0]

Num(v) == [nan |-> FALSE, value |-> v]

\* Number(string) for strings of digits, "." and other characters: blanks
\* around are ignored, the empty string is 0, digits with at most one "."
\* are their value, anything else is NaN (signs, exponents, hexadecimal and
\* Infinity, which Number also reads, are not among the characters modelled)
Number(s) ==
  LET t == trim(s)
      i == indexOf(t, ".")
      intPart == IF i = 0 THEN t ELSE SubSeq(t, 1, i - 1)
      fracPart == IF i = 0 THEN <<>> ELSE SubSeq(t, i + 1, Len(t))
      allDigits(q) == \A k \in 1..Len(q) : q[k] \in Digits
  IN IF t = <<>> THEN Num(0)
     ELSE IF allDigits(intPart) /\ allDigits(fracPart)
             /\ Len(intPart) + Len(fracPart) > 0
       THEN Num(digitsValue(intPart) * 1000 + thousandths(fracPart))
     ELSE NaN

\* lines 80-85
splitList(s) ==
  LET nonEmpty(x) == x # <<>>
  IN SelectSeq(trimAll(split(s, ",")), nonEmpty)

\* lines 87-98, for the object built at line 74
normalizePizza(p) == Pizza(trim(p.name), p.price, p.ingredients, p.allergens)

\* lines 60-74: one line of the filtered list
parseLine(line) ==
  LET parts == trimAll(split(line, "|"))
  IN IF Len(parts) < 4
       THEN [ok |-> FALSE, kind |-> "format"]
       ELSE LET price == Number(replaceFirst(parts[2], ",", <<".">>))
            IN IF price.nan
                 THEN [ok |-> FALSE, kind |-> "price"]
                 ELSE [ok |-> TRUE,
                       pizza |-> normalizePizza(
                                   [name |-> parts[1], price |-> price.value,
                                    ingredients |-> splitList(parts[3]),
                                    allergens |-> splitList(parts[4])])]

\* lines 60-75: lines.map, n being idx + 1; the first throw ends the map
RECURSIVE mapLines(_, _)
mapLines(lines, n) ==
  IF n > Len(lines) THEN [ok |-> TRUE, pizzas |-> <<>>]
  ELSE LET r == parseLine(lines[n])
       IN IF ~r.ok
            THEN [ok |-> FALSE, error |-> [kind |-> r.kind, line |-> n]]
            ELSE LET rest == mapLines(lines, n + 1)
                 IN IF rest.ok
                      THEN [ok |-> TRUE, pizzas |-> <<r.pizza>> \o rest.pizzas]
                      ELSE rest

\* lines 55-77
loadPizzas(raw) ==
  LET keep(l) == l # <<>> /\ Head(l) # "#"
      lines == SelectSeq(trimAll(split(raw, "\n")), keep)
  IN mapLines(lines, 1)

NoSource == <<>>

NoError == [kind |-> "none", line |-> 0]

\* the process before line 283, but for the text of the catalog file
InitServer ==
  /\ PIZZAS = <<>>
  /\ CART = <<>>
  /\ boot = "load"
  /\ catalogLoaded = FALSE
  /\ transportConnected = FALSE
  /\ httpListening = FALSE
  /\ exitCode = -1
  /\ pc = "idle"
  /\ cur = NoCur
  /\ req = NoReq
  /\ resp = NoResp
  /\ prev = <<>>
  /\ committed = <<>>
  /\ lastSnap = NoSnap
  /\ reads = 0
  /\ loadError = NoError

\* the catalog file is left out: loadPizzas returns one of Catalogs or throws
Init ==
  /\ InitServer
  /\ source = NoSource

(***************************************************************************)
(* Boot (lines 283-294 and 399-401).                                       *)
(***************************************************************************)
serverVars == <<CART, pc, cur, req, resp, prev, committed, lastSnap, reads>>

loadVars == <<source, loadError>>

\* line 285 returns the catalog cat
LoadCatalog(cat) ==
  /\ boot = "load"
  /\ PIZZAS' = cat
  /\ catalogLoaded' = TRUE
  /\ boot' = "connect"
  /\ UNCHANGED <<transportConnected, httpListening, exitCode>>
  /\ UNCHANGED loadVars
  /\ UNCHANGED serverVars

LoadOk == \E cat \in Catalogs : LoadCatalog(cat)

\* LoadFail without the process.exit of line 289: boot goes on
LoadFailContinues ==
  /\ boot = "load"
  /\ boot' = "connect"
  /\ UNCHANGED <<PIZZAS, catalogLoaded, transportConnected, httpListening, exitCode>>
  /\ UNCHANGED loadVars
  /\ UNCHANGED serverVars

\* line 285 throws (unreadable file, malformed catalog): lines 287-289
LoadFail ==
  /\ boot = "load"
  /\ exitCode' = 1
  /\ boot' = "exited"
  /\ UNCHANGED <<PIZZAS, catalogLoaded, transportConnected, httpListening>>
  /\ UNCHANGED loadVars
  /\ UNCHANGED serverVars

\* lines 293-294
Connect ==
  /\ boot = "connect"
  /\ transportConnected' = TRUE
  /\ boot' = "listen"
  /\ UNCHANGED <<PIZZAS, catalogLoaded, httpListening, exitCode>>
  /\ UNCHANGED loadVars
  /\ UNCHANGED serverVars

\* lines 399-401
Listen ==
  /\ boot = "listen"
  /\ httpListening' = TRUE
  /\ boot' = "serving"
  /\ UNCHANGED <<PIZZAS, catalogLoaded, transportConnected, exitCode>>
  /\ UNCHANGED loadVars
  /\ UNCHANGED serverVars

\* lines 284-290 on the text of the catalog file
LoadSource ==
  /\ boot = "load"
  /\ LET r == loadPizzas(source)
     IN IF r.ok
          THEN /\ PIZZAS' = r.pizzas
               /\ catalogLoaded' = TRUE
               /\ boot' = "connect"
               /\ UNCHANGED <<exitCode, loadError>>
          ELSE /\ loadError' = r.error
               /\ exitCode' = 1
               /\ boot' = "exited"
               /\ UNCHANGED <<PIZZAS, catalogLoaded>>
  /\ UNCHANGED <<source, transportConnected, httpListening>>
  /\ UNCHANGED serverVars

bootVars ==
  <<PIZZAS, boot, catalogLoaded, transportConnected, httpListening, exitCode,
    source, loadError>>

(***************************************************************************)
(* Dispatch.  The handlers are async functions without an await and the    *)
(* HTTP callback is synchronous: the event loop hands a request to a       *)
(* handler only when no handler is running.                                *)
(***************************************************************************)
\* Dispatchable if the handlers suspended between their writes
DispatchableAnytime == TRUE

Dispatchable == pc = "idle"

ToolReady == transportConnected /\ exitCode = -1 /\ Dispatchable

HttpReady == httpListening /\ exitCode = -1 /\ Dispatchable

(***************************************************************************)
(* add_to_cart (lines 196-224).                                            *)
(***************************************************************************)
\* addLine storing the quantity of the call instead of adding it to the line's
addLineOverwrite(cart, pizza, quantity) ==
  LET key == toLowerCase(pizza.name)
      current == IF MapHas(cart, key)
                   THEN MapGet(cart, key)
                   ELSE [key |-> key, name |-> pizza.name,
                         unitPrice |-> pizza.price, quantity |-> 0]
  IN MapSet(cart, key, [current EXCEPT !.quantity = quantity])

\* addLine deleting the line before storing it again: the line goes last
addLineMoveToEnd(cart, pizza, quantity) ==
  LET key == toLowerCase(pizza.name)
      current == IF MapHas(cart, key)
                   THEN MapGet(cart, key)
                   ELSE [key |-> key, name |-> pizza.name,
                         unitPrice |-> pizza.price, quantity |-> 0]
  IN Append(MapDelete(cart, key), [current EXCEPT !.quantity = @ + quantity])

\* addLine naming a new line by its key instead of the catalog name
addLineLowerName(cart, pizza, quantity) ==
  LET key == toLowerCase(pizza.name)
      current == IF MapHas(cart, key)
                   THEN MapGet(cart, key)
                   ELSE [key |-> key, name |-> key,
                         unitPrice |-> pizza.price, quantity |-> 0]
  IN MapSet(cart, key, [current EXCEPT !.quantity = @ + quantity])

\* lines 209-216: the cart after the pizza's line has received quantity
addLine(cart, pizza, quantity) ==
  LET key == toLowerCase(pizza.name)
      current == IF MapHas(cart, key)
                   THEN MapGet(cart, key)
                   ELSE [key |-> key, name |-> pizza.name,
                         unitPrice |-> pizza.price, quantity |-> 0]
  IN MapSet(cart, key, [current EXCEPT !.quantity = @ + quantity])

\* addMiss without the early return: the unknown name gets a line
addMissCreatesLine(cart, name) ==
  LET key == toLowerCase(trim(name))
  IN MapSet(cart, key,
            [key |-> key, name |-> name, unitPrice |-> 0, quantity |-> 1])

\* lines 198-208: the early return
addMiss(cart, name) == cart

RECURSIVE units(_)
units(cart) ==
  IF cart = <<>> THEN 0 ELSE Head(cart).quantity + units(Tail(cart))

\* lines 196-224, request being the record kept of the call
add_to_cartHandler(name, quantity, request) ==
  /\ ToolReady
  /\ LET pizza == findPizzaByName(name)
     IN IF pizza = null
          THEN /\ CART' = addMiss(CART, name)
               /\ resp' = ToolError(<<"Pizza introuvable", name>>)
               /\ UNCHANGED <<lastSnap, reads, committed>>
          ELSE /\ CART' = addLine(CART, pizza, quantity)
               /\ units(CART') <= MaxUnits
               /\ resp' = ToolText(<<"Ajoute", quantity, pizza.name>>)
               /\ lastSnap' = NoSnap
               /\ reads' = 0
               /\ committed' = CART'
  /\ req' = request
  /\ prev' = CART
  /\ UNCHANGED <<pc, cur>>
  /\ UNCHANGED bootVars

\* a call whose arguments have passed the input schema
add_to_cart(name, quantity) ==
  add_to_cartHandler(name, quantity,
    [op |-> "add_to_cart", name |-> name, quantity |-> quantity])

(***************************************************************************)
(* add_to_cart as a client calls it: the quantity argument may be absent   *)
(* or any integer, and goes through the input schema of line 193,          *)
(* z.number().int().min(1).default(1), before the handler is run.          *)
(***************************************************************************)
Missing == [given |-> FALSE, value |-> 0]

Given(v) == [given |-> TRUE, value |-> v]

RawQuantities == {Missing} \cup {Given(v) : v \in {-1, 0} \cup Quantities}

\* the schema with clamping in the place of min(1)
schemaQuantityClamping(raw) ==
  IF ~raw.given THEN [ok |-> TRUE, value |-> 1]
  ELSE IF raw.value >= 1 THEN [ok |-> TRUE, value |-> raw.value]
  ELSE [ok |-> TRUE, value |-> 1]

\* line 193: default(1) for an absent argument, min(1) refusing the others
schemaQuantity(raw) ==
  IF ~raw.given THEN [ok |-> TRUE, value |-> 1]
  ELSE IF raw.value >= 1 THEN [ok |-> TRUE, value |-> raw.value]
  ELSE [ok |-> FALSE, value |-> raw.value]

\* lines 186-196: arguments refused by the schema never reach the handler
call_add_to_cart(name, raw) ==
  LET parsed == schemaQuantity(raw)
      request == [op |-> "add_to_cart", name |-> name,
                  quantity |-> parsed.value, raw |-> raw]
  IN IF parsed.ok
       THEN add_to_cartHandler(name, parsed.value, request)
       ELSE /\ ToolReady
            /\ resp' = [kind |-> "invalid_params", isError |-> TRUE]
            /\ req' = request
            /\ prev' = CART
            /\ UNCHANGED <<CART, pc, cur, committed, lastSnap, reads>>
            /\ UNCHANGED bootVars

(***************************************************************************)
(* remove_from_cart (lines 239-263), in the two places where it writes to  *)
(* the cart: line 250, which decrements the stored line object, and lines  *)
(* 251-255, which delete the line or store it again.                       *)
(***************************************************************************)
\* removeDecrement taking one unit whatever the quantity asked
removeDecrementOne(cart, key, quantity) ==
  [cart EXCEPT ![MapIndex(cart, key)].quantity = @ - 1]

\* line 250, on the object the Map holds
removeDecrement(cart, key, quantity) ==
  [cart EXCEPT ![MapIndex(cart, key)].quantity = @ - quantity]

\* removeSettle emptying the Map where it should delete one key
removeSettleClears(cart, key, current) ==
  IF current.quantity <= 0
    THEN <<>>
    ELSE MapSet(cart, key, current)

\* removeSettle deleting only below zero
removeSettleKeepsZero(cart, key, current) ==
  IF current.quantity < 0
    THEN MapDelete(cart, key)
    ELSE MapSet(cart, key, current)

\* lines 251-255, current being the line object read at line 241
removeSettle(cart, key, current) ==
  IF current.quantity <= 0
    THEN MapDelete(cart, key)
    ELSE MapSet(cart, key, current)

\* removeMiss falling back to the first line whose key starts like the name
removeMissFuzzy(cart, name) ==
  LET n == toLowerCase(trim(name))
      like(l) == ~(n # <<>> /\ l.key # <<>> /\ Head(l.key) = Head(n))
  IN SelectSeq(cart, like)

\* lines 242-249: the early return
removeMiss(cart, name) == cart

\* removeKey without the trim: the typed blanks stay in the key
removeKeyNoTrim(name) == toLowerCase(name)

\* line 240
removeKey(name) == toLowerCase(trim(name))

\* lines 240-250
remove_from_cart(name, quantity) ==
  /\ ToolReady
  /\ LET key == removeKey(name)
     IN IF ~MapHas(CART, key)
          THEN /\ CART' = removeMiss(CART, name)
               /\ resp' = ToolError(<<"Cette pizza n'est pas dans le panier", name>>)
               /\ UNCHANGED <<pc, cur>>
          ELSE /\ CART' = removeDecrement(CART, key, quantity)
               /\ pc' = "remove_settle"
               /\ cur' = [quantity |-> quantity, key |-> key,
                          current |-> MapGet(CART', key)]
               /\ resp' = NoResp
  /\ req' = [op |-> "remove_from_cart", name |-> name, quantity |-> quantity]
  /\ prev' = CART
  /\ UNCHANGED <<committed, lastSnap, reads>>
  /\ UNCHANGED bootVars

\* lines 251-262
remove_from_cart_settle ==
  /\ pc = "remove_settle"
  /\ CART' = removeSettle(CART, cur.key, cur.current)
  /\ resp' = ToolText(<<"Retire", cur.quantity, cur.current.name>>)
  /\ pc' = "idle"
  /\ cur' = NoCur
  /\ committed' = CART'
  /\ lastSnap' = NoSnap
  /\ reads' = 0
  /\ UNCHANGED <<req, prev>>
  /\ UNCHANGED bootVars

(***************************************************************************)
(* get_cart (lines 274-277).                                               *)
(***************************************************************************)
\* get_cart emptying the cart it has just reported
get_cartDraining ==
  /\ ToolReady
  /\ resp' = [kind |-> "cart", isError |-> FALSE, cart |-> cartTotals(CART)]
  /\ lastSnap' = cartTotals(CART)
  /\ reads' = IF reads < 2 THEN reads + 1 ELSE reads
  /\ req' = [op |-> "get_cart"]
  /\ prev' = CART
  /\ CART' = <<>>
  /\ UNCHANGED <<pc, cur, committed>>
  /\ UNCHANGED bootVars

get_cart ==
  /\ ToolReady
  /\ resp' = [kind |-> "cart", isError |-> FALSE, cart |-> cartTotals(CART)]
  /\ lastSnap' = cartTotals(CART)
  /\ reads' = IF reads < 2 THEN reads + 1 ELSE reads
  /\ req' = [op |-> "get_cart"]
  /\ prev' = CART
  /\ UNCHANGED <<CART, pc, cur, committed>>
  /\ UNCHANGED bootVars

(***************************************************************************)
(* list_pizzas (lines 157-182).  An absent filter is an empty sequence     *)
(* (both skip their branch: lines 163 and 169); maxPrice is a record       *)
(* saying whether a number was given.                                      *)
(***************************************************************************)
SeqToSet(q) == {q[i] : i \in 1..Len(q)}

lowerAll(q) == [i \in 1..Len(q) |-> toLowerCase(q[i])]

\* lines 160-162
filterMaxPrice(list, maxPrice) ==
  IF maxPrice.given
    THEN LET keep(p) == p.price <= maxPrice.value IN SelectSeq(list, keep)
    ELSE list

\* lines 163-168 without the two toLowerCase calls: a case-sensitive exclusion
filterAllergensCaseSensitive(list, excludeAllergens) ==
  IF Len(excludeAllergens) > 0
    THEN LET ex == SeqToSet(excludeAllergens)
             keep(p) == ~\E a \in SeqToSet(p.allergens) : a \in ex
         IN SelectSeq(list, keep)
    ELSE list

\* lines 163-168
filterAllergens(list, excludeAllergens) ==
  IF Len(excludeAllergens) > 0
    THEN LET ex == SeqToSet(lowerAll(excludeAllergens))
             keep(p) == ~\E a \in SeqToSet(p.allergens) : toLowerCase(a) \in ex
         IN SelectSeq(list, keep)
    ELSE list

\* lines 169-175
filterIngredients(list, includeIngredients) ==
  IF Len(includeIngredients) > 0
    THEN LET need == lowerAll(includeIngredients)
             keep(p) == \A i \in 1..Len(need) :
                          need[i] \in SeqToSet(lowerAll(p.ingredients))
         IN SelectSeq(list, keep)
    ELSE list

listPizzas(maxPrice, excludeAllergens, includeIngredients) ==
  filterIngredients(
    filterAllergens(filterMaxPrice(PIZZAS, maxPrice), excludeAllergens),
    includeIngredients)

MaxPrices == {[given |-> FALSE, value |-> 0], [given |-> TRUE, value |-> 10000]}

AllergenFilters == { <<>>, << <<"G">> >> }

IngredientFilters == { <<>>, << <<"C">>, <<"t">> >> }

\* list_pizzas filtering PIZZAS itself instead of a copy
list_pizzasInPlace(maxPrice, excludeAllergens, includeIngredients) ==
  /\ ToolReady
  /\ resp' = [kind |-> "pizzas", isError |-> FALSE,
              pizzas |-> listPizzas(maxPrice, excludeAllergens, includeIngredients)]
  /\ PIZZAS' = resp'.pizzas
  /\ req' = [op |-> "list_pizzas", maxPrice |-> maxPrice,
             excludeAllergens |-> excludeAllergens,
             includeIngredients |-> includeIngredients]
  /\ prev' = CART
  /\ UNCHANGED <<CART, pc, cur, committed, lastSnap, reads>>
  /\ UNCHANGED <<boot, catalogLoaded, transportConnected, httpListening, exitCode>>
  /\ UNCHANGED loadVars

list_pizzas(maxPrice, excludeAllergens, includeIngredients) ==
  /\ ToolReady
  /\ resp' = [kind |-> "pizzas", isError |-> FALSE,
              pizzas |-> listPizzas(maxPrice, excludeAllergens, includeIngredients)]
  /\ req' = [op |-> "list_pizzas", maxPrice |-> maxPrice,
             excludeAllergens |-> excludeAllergens,
             includeIngredients |-> includeIngredients]
  /\ prev' = CART
  /\ UNCHANGED <<CART, pc, cur, committed, lastSnap, reads>>
  /\ UNCHANGED bootVars

(***************************************************************************)
(* The HTTP cart view (lines 303-397).                                     *)
(***************************************************************************)
\* String.prototype.replaceAll for a one-character pattern
RECURSIVE replaceAll(_, _, _)
replaceAll(s, c, r) ==
  IF s = <<>> THEN <<>>
  ELSE (IF Head(s) = c THEN r ELSE <<Head(s)>>) \o replaceAll(Tail(s), c, r)

\* escapeHtml replacing "&" after the other four characters
escapeHtmlAmpLast(s) ==
  replaceAll(
    replaceAll(
      replaceAll(
        replaceAll(
          replaceAll(s, "<", <<"&", "l", "t", ";">>),
          ">", <<"&", "g", "t", ";">>),
        "\"", <<"&", "q", "u", "o", "t", ";">>),
      "'", <<"&", "#", "3", "9", ";">>),
    "&", <<"&", "a", "m", "p", ";">>)

\* lines 367-374: five replaceAll passes, "&" first
escapeHtml(s) ==
  replaceAll(
    replaceAll(
      replaceAll(
        replaceAll(
          replaceAll(s, "&", <<"&", "a", "m", "p", ";">>),
          "<", <<"&", "l", "t", ";">>),
        ">", <<"&", "g", "t", ";">>),
      "\"", <<"&", "q", "u", "o", "t", ";">>),
    "'", <<"&", "#", "3", "9", ";">>)

\* Number.prototype.toFixed(2) of a non-negative amount: the cents shown
toFixed2(n) == (n + 5) \div 10

\* lines 303-365: the rows of the table and the subtotal of its footer
renderCartHtml(cart) ==
  LET t == cartTotals(cart)
  IN [empty |-> Len(t.items) = 0,
      rows |-> [i \in 1..Len(t.items) |->
                  [name |-> escapeHtml(t.items[i].name),
                   unitPrice |-> toFixed2(t.items[i].unitPrice),
                   quantity |-> t.items[i].quantity,
                   lineTotal |-> toFixed2(t.items[i].lineTotal)]],
      subtotal |-> toFixed2(t.subtotal),
      currency |-> t.currency]

Methods == {"GET", "POST"}

Urls == {"/", "/cart", "/api/cart.json", "/health", "/other"}

\* lines 376-397
httpRespond(cart, method, url) ==
  IF method = "GET" /\ (url = "/" \/ url = "/cart")
    THEN HttpResponse(200, "text/html", [html |-> renderCartHtml(cart)])
  ELSE IF method = "GET" /\ url = "/api/cart.json"
    THEN HttpResponse(200, "application/json", [cart |-> cartTotals(cart)])
  ELSE IF method = "GET" /\ url = "/health"
    THEN HttpResponse(200, "text/plain", [text |-> "ok"])
  ELSE HttpResponse(404, "text/plain", [text |-> "Not found"])

\* http_request whose fall-through route throws: the process dies on a 404
http_requestCrashing(method, url) ==
  /\ HttpReady
  /\ resp' = httpRespond(CART, method, url)
  /\ IF method = "GET" /\ url = "/api/cart.json"
       THEN /\ lastSnap' = cartTotals(CART)
            /\ reads' = IF reads < 2 THEN reads + 1 ELSE reads
       ELSE UNCHANGED <<lastSnap, reads>>
  /\ req' = [op |-> "http", method |-> method, url |-> url]
  /\ prev' = CART
  /\ IF resp'.status = 404
       THEN exitCode' = 1 /\ boot' = "exited"
       ELSE UNCHANGED <<exitCode, boot>>
  /\ UNCHANGED <<CART, pc, cur, committed>>
  /\ UNCHANGED <<PIZZAS, catalogLoaded, transportConnected, httpListening>>
  /\ UNCHANGED loadVars

http_request(method, url) ==
  /\ HttpReady
  /\ resp' = httpRespond(CART, method, url)
  /\ IF method = "GET" /\ url = "/api/cart.json"
       THEN /\ lastSnap' = cartTotals(CART)
            /\ reads' = IF reads < 2 THEN reads + 1 ELSE reads
       ELSE UNCHANGED <<lastSnap, reads>>
  /\ req' = [op |-> "http", method |-> method, url |-> url]
  /\ prev' = CART
  /\ UNCHANGED <<CART, pc, cur, committed>>
  /\ UNCHANGED bootVars

(***************************************************************************)
(* The specification.                                                      *)
(***************************************************************************)
Next ==
  \/ LoadOk
  \/ LoadFail
  \/ Connect
  \/ Listen
  \/ \E name \in ReqNames, quantity \in Quantities : add_to_cart(name, quantity)
  \/ \E name \in ReqNames, quantity \in Quantities : remove_from_cart(name, quantity)
  \/ remove_from_cart_settle
  \/ get_cart
  \/ \E maxPrice \in MaxPrices, ex \in AllergenFilters, inc \in IngredientFilters :
       list_pizzas(maxPrice, ex, inc)
  \/ \E method \in Methods, url \in Urls : http_request(method, url)

Spec == Init /\ [][Next]_vars

\* the tool surface with add_to_cart called on unvalidated arguments
NextQuantity ==
  \/ LoadOk
  \/ Connect
  \/ \E name \in ReqNames, raw \in RawQuantities : call_add_to_cart(name, raw)
  \/ \E name \in ReqNames, quantity \in Quantities :
       remove_from_cart(name, quantity)
  \/ remove_from_cart_settle

QuantitySpec == Init /\ [][NextQuantity]_vars

(***************************************************************************)
(* The HTML view of a cart whose line is named with markup characters: a   *)
(* catalog of one pizza, its name any sequence of at most MaxNameLen       *)
(* characters among the five that escapeHtml replaces and a letter.        *)
(***************************************************************************)
MaxNameLen == 3

MarkupChars == {"<", ">", "&", "\"", "'", "a"}

MarkupNames == UNION {[1..n -> MarkupChars] : n \in 1..MaxNameLen}

NextHtml ==
  \/ \E name \in MarkupNames : LoadCatalog(<<Pizza(name, 8000, <<>>, <<>>)>>)
  \/ Connect
  \/ Listen
  \/ PIZZAS # <<>> /\ add_to_cart(PIZZAS[1].name, 1)
  \/ \E url \in {"/", "/cart"} : http_request("GET", url)

HtmlSpec == Init /\ [][NextHtml]_vars

(***************************************************************************)
(* Boot on a text catalog file of at most MaxFileLines lines, each line    *)
(* one of FileLines: blank, comment, well-formed (with blanks around the   *)
(* fields, with a decimal comma), too short, or with a price that is not   *)
(* a number or is empty.                                                   *)
(***************************************************************************)
MaxFileLines == 3

FileLines ==
  { <<>>,
    <<"#", "x">>,
    <<"M", " ", "|", " ", "8", "|", "t", "|", "g">>,
    <<"b", "|", "8", ",", "5", "|", "t", ",", "c", "|">>,
    <<"M", "|", "8">>,
    <<"M", "|", "x", "|", "t", "|", "g">>,
    <<"M", "|", "|", "t", "|", "g">> }

RECURSIVE joinLines(_)
joinLines(ls) ==
  IF Len(ls) = 0 THEN <<>>
  ELSE IF Len(ls) = 1 THEN ls[1]
  ELSE ls[1] \o <<"\n">> \o joinLines(Tail(ls))

Sources ==
  {joinLines(ls) : ls \in UNION {[1..n -> FileLines] : n \in 1..MaxFileLines}}

InitLoader ==
  /\ InitServer
  /\ source \in Sources

NextLoader ==
  \/ LoadSource
  \/ Connect
  \/ Listen

LoaderSpec == InitLoader /\ [][NextLoader]_vars

(***************************************************************************)
(* Properties.                                                             *)
(***************************************************************************)
Idle == pc = "idle"

CartKey(name) == toLowerCase(trim(name))

InCatalog(name) ==
  \E i \in 1..Len(PIZZAS) : toLowerCase(PIZZAS[i].name) = CartKey(name)

AddSucceeded == req.op = "add_to_cart" /\ Idle /\ ~resp.isError

RemoveSucceeded == req.op = "remove_from_cart" /\ Idle /\ ~resp.isError

\* C1: between two requests every line stored in the cart has a quantity
\* greater than 0, whatever adds and removes (quantities >= 1) came before.
C1_QuantityPositive ==
  Idle => \A i \in 1..Len(CART) : CART[i].quantity > 0

\* a remove has just deleted a line and left another in the cart
C1_Witness ==
  /\ RemoveSucceeded
  /\ Len(prev) = 2
  /\ Len(CART) = 1
  /\ MapGet(prev, CartKey(req.name)).quantity = req.quantity

\* C2: a successful add_to_cart(name, q) for catalog pizza p creates p's line
\* with quantity q and p's catalog price when the cart had none, otherwise
\* adds exactly q to the line and keeps its unitPrice; the cart never holds
\* two lines for one pizza.
C2_AddCreatesOrIncrements ==
  /\ \A i, j \in 1..Len(CART) : CART[i].key = CART[j].key => i = j
  /\ AddSucceeded =>
       LET p == findPizzaByName(req.name)
           key == toLowerCase(p.name)
       IN /\ InCatalog(req.name)
          /\ MapHas(CART, key)
          /\ Cardinality({i \in 1..Len(CART) : CART[i].name = p.name}) = 1
          /\ IF MapHas(prev, key)
               THEN /\ MapGet(CART, key).quantity =
                         MapGet(prev, key).quantity + req.quantity
                    /\ MapGet(CART, key).unitPrice = MapGet(prev, key).unitPrice
                    /\ Len(CART) = Len(prev)
               ELSE /\ MapGet(CART, key) =
                         [key |-> key, name |-> p.name,
                          unitPrice |-> p.price, quantity |-> req.quantity]
                    /\ Len(CART) = Len(prev) + 1

\* add(p, 1) on a cart where p's line held 2: one line for p, with 3
C2_Witness ==
  /\ AddSucceeded
  /\ req.quantity = 1
  /\ MapHas(prev, CartKey(req.name))
  /\ MapGet(prev, CartKey(req.name)).quantity = 2
  /\ MapGet(CART, CartKey(req.name)).quantity = 3

\* C3: remove_from_cart(name, q) on a line of quantity n leaves n - q when
\* q < n and deletes the line when q >= n; removing the whole quantity of the
\* only line leaves an empty cart, which get_cart reports with no items and
\* subtotal 0.
C3_RemoveDecrementsOrDeletes ==
  /\ RemoveSucceeded =>
       LET key == CartKey(req.name)
           n == MapGet(prev, key).quantity
       IN /\ MapHas(prev, key)
          /\ IF req.quantity < n
               THEN /\ MapHas(CART, key)
                    /\ MapGet(CART, key).quantity = n - req.quantity
                    /\ Len(CART) = Len(prev)
               ELSE /\ ~MapHas(CART, key)
                    /\ Len(CART) = Len(prev) - 1
          /\ (Len(prev) = 1 /\ req.quantity >= n) =>
               /\ CART = <<>>
               /\ cartTotals(CART).items = <<>>
               /\ cartTotals(CART).subtotal = 0
  /\ (req.op = "get_cart" /\ CART = <<>>) =>
       /\ resp.kind = "cart"
       /\ resp.cart.items = <<>>
       /\ resp.cart.subtotal = 0

\* the only line, of quantity 2, removed with quantity 3
C3_Witness ==
  /\ RemoveSucceeded
  /\ Len(prev) = 1
  /\ prev[1].quantity = 2
  /\ req.quantity = 3
  /\ CART = <<>>

\* C4: remove_from_cart with a name that, trimmed and lower-cased, is the key
\* of no line returns an isError result and leaves the cart as it was: same
\* lines, quantities, unit prices and order.
C4_RemoveMissLeavesCart ==
  (req.op = "remove_from_cart" /\ Idle /\ ~MapHas(prev, CartKey(req.name))) =>
    /\ resp.isError
    /\ CART = prev

\* a remove that missed on a cart of two lines
C4_Witness ==
  /\ req.op = "remove_from_cart"
  /\ Idle
  /\ resp.isError
  /\ Len(prev) = 2
  /\ ~MapHas(prev, CartKey(req.name))

\* C5: add_to_cart with a name that, trimmed and lower-cased, is the name of
\* no catalog pizza returns an isError result carrying a message and leaves
\* the cart as it was.
C5_AddMissLeavesCart ==
  (req.op = "add_to_cart" /\ ~InCatalog(req.name)) =>
    /\ resp.isError
    /\ resp.kind = "text"
    /\ resp.text # <<>>
    /\ CART = prev

\* an add that missed on a cart of two lines
C5_Witness ==
  /\ req.op = "add_to_cart"
  /\ resp.isError
  /\ ~InCatalog(req.name)
  /\ Len(prev) = 2

GetCartRead == req.op = "get_cart" /\ resp.kind = "cart"

ApiCartRead ==
  /\ req.op = "http"
  /\ req.method = "GET"
  /\ req.url = "/api/cart.json"
  /\ resp.kind = "http"

HtmlRead ==
  /\ req.op = "http"
  /\ req.method = "GET"
  /\ req.url \in {"/", "/cart"}
  /\ resp.kind = "http"

\* C6: every snapshot returned by get_cart, GET /api/cart.json or the HTML
\* page is the snapshot of the cart as the last completed add or remove left
\* it; none shows a line whose quantity remove_from_cart has brought to <= 0
\* and not yet deleted.
C6_ReadsSeeCompletedCart ==
  /\ GetCartRead =>
       /\ resp.cart = cartTotals(committed)
       /\ \A i \in 1..Len(resp.cart.items) : resp.cart.items[i].quantity > 0
  /\ ApiCartRead =>
       /\ resp.body.cart = cartTotals(committed)
       /\ \A i \in 1..Len(resp.body.cart.items) :
            resp.body.cart.items[i].quantity > 0
  /\ HtmlRead =>
       /\ resp.body.html = renderCartHtml(committed)
       /\ \A i \in 1..Len(resp.body.html.rows) :
            resp.body.html.rows[i].quantity > 0

\* the JSON view read after adds and removes have left a line in the cart
C6_Witness ==
  /\ ApiCartRead
  /\ Len(resp.body.cart.items) = 1
  /\ resp.body.cart.items[1].quantity = 2
  /\ Len(PIZZAS) = 3

RECURSIVE sumProducts(_)
sumProducts(cart) ==
  IF cart = <<>> THEN 0
  ELSE Head(cart).unitPrice * Head(cart).quantity + sumProducts(Tail(cart))

\* C7: the subtotal of a snapshot is the sum of the unrounded products
\* unitPrice x quantity, rounded once to 2 decimals, and each lineTotal is
\* its line's product rounded to 2 decimals.
C7_SubtotalOfUnroundedProducts ==
  GetCartRead =>
    /\ resp.cart.subtotal = round2(sumProducts(prev))
    /\ \A i \in 1..Len(resp.cart.items) :
         resp.cart.items[i].lineTotal =
           round2(prev[i].unitPrice * prev[i].quantity)

SnapshotRead(r) ==
  \/ r.op = "get_cart"
  \/ r.op = "http" /\ r.method = "GET" /\ r.url = "/api/cart.json"

SnapOf(rs) == IF rs.kind = "cart" THEN rs.cart ELSE rs.body.cart

\* C8: a snapshot read (get_cart or GET /api/cart.json) that follows another
\* with no successful add_to_cart or remove_from_cart in between returns the
\* same items in the same order and the same subtotal, whatever list_pizzas,
\* GET /, GET /health, 404 and failed add/remove requests came in between.
C8_RereadIdentical ==
  [][(SnapshotRead(req') /\ reads > 0 /\ resp'.kind \in {"cart", "http"})
       => SnapOf(resp') = lastSnap]_vars

\* a second snapshot read of a cart of two lines, nothing added or removed
\* since the first
C8_Witness ==
  /\ reads = 2
  /\ SnapshotRead(req)
  /\ resp.kind \in {"cart", "http"}
  /\ Len(SnapOf(resp).items) = 2

\* the names of the snapshot's items, in the order the snapshot lists them
SnapNames(cart) ==
  LET items == cartToArray(cart)
  IN [i \in 1..Len(items) |-> items[i].name]

\* C9: the snapshot lists the lines in the order in which they were created
\* (the first add of each line): across every step the lines that stay are
\* listed first and in the order they had (so an add to a present line and a
\* partial remove move nothing) and a line that appears is listed after them.
C9_OrderOfFirstAdd ==
  [][\/ CART' = CART
     \/ LET old == SnapNames(CART)
            new == SnapNames(CART')
            stays(x) == x \in SeqToSet(new)
            appears(x) == x \notin SeqToSet(old)
        IN new = SelectSeq(old, stays) \o SelectSeq(new, appears)]_vars

\* an add to the first of three lines has left it first
C9_Witness ==
  /\ AddSucceeded
  /\ Len(prev) = 3
  /\ prev[1].key = CartKey(req.name)
  /\ CART[1].key = CartKey(req.name)
  /\ CART[1].quantity = prev[1].quantity + req.quantity
  /\ SnapNames(CART) = SnapNames(prev)

\* C10: the tool transport is connected and the HTTP listener started only
\* after the catalog has loaded; when loading fails the process exits with a
\* non-zero code with neither surface started; no request is ever served
\* against a catalog that has not been loaded.
C10_BootOrder ==
  /\ (transportConnected \/ httpListening) => catalogLoaded
  /\ httpListening => transportConnected
  /\ (boot = "exited" \/ exitCode # -1) =>
       /\ exitCode > 0
       /\ ~catalogLoaded
       /\ ~transportConnected
       /\ ~httpListening
       /\ req = NoReq
  /\ (boot # "load" /\ ~catalogLoaded) => boot = "exited"
  /\ req # NoReq => catalogLoaded

\* both surfaces up and an HTTP request served from the loaded catalog
C10_Witness ==
  /\ catalogLoaded
  /\ transportConnected
  /\ httpListening
  /\ req.op = "http"
  /\ Len(PIZZAS) = 3
  /\ Len(CART) = 1

Terminated == boot = "exited" \/ exitCode # -1

\* C11: once the surfaces run, no tool call and no HTTP request terminates
\* the service: each gets a response (an isError result for an unknown pizza
\* or an absent line, a 404 for an unknown path or a method other than GET),
\* the cart of a refused request is the cart as it was, the next request can
\* still be served, and the process terminates only from a failed catalog
\* load at boot.
C11_RequestsNeverTerminate ==
  /\ [](req # NoReq => ~Terminated)
  /\ []((req # NoReq /\ Idle) => resp # NoResp)
  /\ []((req.op \in {"add_to_cart", "remove_from_cart"} /\ resp.isError)
          => CART = prev)
  /\ []((req.op = "http" /\ resp.kind = "http" /\ resp.status = 404)
          => CART = prev)
  /\ []((req.op = "http" /\ resp.kind = "http")
          => (resp.status = 404 <=>
                ~(req.method = "GET"
                  /\ req.url \in {"/", "/cart", "/api/cart.json", "/health"})))
  /\ []((transportConnected /\ Idle) => ENABLED get_cart)
  /\ []((httpListening /\ Idle) => ENABLED http_request("GET", "/health"))
  /\ [][Terminated' => (Terminated \/ (boot = "load" /\ req = NoReq))]_vars
  /\ [][(transportConnected => transportConnected')
        /\ (httpListening => httpListening')]_vars

\* a POST answered 404 while the cart holds two lines, the service still up
C11_Witness ==
  /\ req.op = "http"
  /\ req.method = "POST"
  /\ resp.kind = "http"
  /\ resp.status = 404
  /\ Len(CART) = 2
  /\ boot = "serving"
  /\ ~Terminated

SameIgnoringCase(a, b) == toLowerCase(a) = toLowerCase(b)

\* the three filters of a list_pizzas request, as the claim words them
SatisfiesFilters(p, r) ==
  /\ r.maxPrice.given => p.price <= r.maxPrice.value
  /\ \A i \in 1..Len(p.allergens) : \A j \in 1..Len(r.excludeAllergens) :
       ~SameIgnoringCase(p.allergens[i], r.excludeAllergens[j])
  /\ \A j \in 1..Len(r.includeIngredients) : \E i \in 1..Len(p.ingredients) :
       SameIgnoringCase(p.ingredients[i], r.includeIngredients[j])

Unfiltered(r) ==
  /\ ~r.maxPrice.given
  /\ r.excludeAllergens = <<>>
  /\ r.includeIngredients = <<>>

\* C12: list_pizzas returns exactly the catalog's pizzas that satisfy every
\* supplied filter, in catalog order; with no filter it returns the whole
\* catalog; a result with no pizza is an ordinary, non-error result.
C12_ListIsFilteredCatalog ==
  req.op = "list_pizzas" =>
    /\ resp.kind = "pizzas"
    /\ ~resp.isError
    /\ LET keep(p) == SatisfiesFilters(p, req)
       IN resp.pizzas = SelectSeq(PIZZAS, keep)
    /\ Unfiltered(req) => resp.pizzas = PIZZAS

\* excluding "G" on the three-pizza catalog drops the pizza whose allergen is
\* written "G" and the one whose allergen is written "g"; one pizza is left
C12_Witness ==
  /\ req.op = "list_pizzas"
  /\ PIZZAS = CatalogA
  /\ ~req.maxPrice.given
  /\ req.excludeAllergens = << <<"G">> >>
  /\ req.includeIngredients = <<>>
  /\ Len(resp.pizzas) = 1
  /\ resp.pizzas[1].name = <<"C">>

\* two spellings of one name: equal once surrounding blanks and case are gone
SameName(a, b) == toLowerCase(trim(a)) = toLowerCase(trim(b))

\* C13: add_to_cart and remove_from_cart match a typed name the same way,
\* exactly, ignoring case and surrounding blanks: an add succeeds exactly
\* when some catalog pizza has that name, a remove exactly when some cart
\* line has it, so a line added under one spelling is found by a remove
\* under another, and a name that differs otherwise matches nothing.
C13_NameMatching ==
  /\ req.op = "add_to_cart" =>
       /\ ~resp.isError <=>
            \E i \in 1..Len(PIZZAS) : SameName(PIZZAS[i].name, req.name)
       /\ ~resp.isError =>
            \E i \in 1..Len(CART) : SameName(CART[i].name, req.name)
  /\ (req.op = "remove_from_cart" /\ Idle) =>
       (~resp.isError <=>
          \E i \in 1..Len(prev) : SameName(prev[i].name, req.name))

\* the line created by add("M") taken out by remove(" m ")
C13_Witness ==
  /\ RemoveSucceeded
  /\ req.name = <<" ", "m", " ">>
  /\ Len(prev) = 2
  /\ \E i \in 1..Len(prev) : prev[i].name = <<"M">>
  /\ \A i \in 1..Len(CART) : CART[i].name # <<"M">>

\* C16: the cart changes only in a successful add_to_cart or
\* remove_from_cart; list_pizzas, get_cart, every HTTP request and a refused
\* add or remove leave the cart as it was, and nothing after the catalog
\* load changes the catalog.
C16_OnlyAddRemoveChangeCart ==
  [][/\ req'.op \in {"list_pizzas", "get_cart", "http"} =>
          (CART' = CART /\ PIZZAS' = PIZZAS)
     /\ (req'.op \in {"add_to_cart", "remove_from_cart"} /\ resp'.isError) =>
          (CART' = CART /\ PIZZAS' = PIZZAS)
     /\ CART' # CART =>
          (req'.op \in {"add_to_cart", "remove_from_cart"} /\ ~resp'.isError)
     /\ PIZZAS' # PIZZAS => boot = "load"]_vars

\* a filtered list_pizzas answered while the cart holds two lines
C16_Witness ==
  /\ req.op = "list_pizzas"
  /\ Len(CART) = 2
  /\ CART = prev
  /\ PIZZAS = CatalogA
  /\ Len(resp.pizzas) < Len(PIZZAS)

\* C19: every cart line is the line of a catalog pizza: its key is that
\* pizza's name in lower case, its name is the catalog's spelling of the
\* name (not the spelling typed in the request) and its unitPrice is the
\* catalog price.
C19_LinesMirrorCatalog ==
  \A i \in 1..Len(CART) : \E j \in 1..Len(PIZZAS) :
    /\ CART[i].key = toLowerCase(PIZZAS[j].name)
    /\ CART[i].name = PIZZAS[j].name
    /\ CART[i].unitPrice = PIZZAS[j].price

\* add(" m ") has created the line named "M", at the catalog price
C19_Witness ==
  /\ AddSucceeded
  /\ req.name = <<" ", "m", " ">>
  /\ prev = <<>>
  /\ PIZZAS = CatalogA
  /\ Len(CART) = 1
  /\ CART[1].name = <<"M">>
  /\ CART[1].unitPrice = 8004

\* C20: a successful add_to_cart or remove_from_cart for pizza p leaves the
\* line of every other pizza as it was: same quantity, same unitPrice, same
\* place relative to the other lines.
C20_OtherLinesUntouched ==
  (AddSucceeded \/ RemoveSucceeded) =>
    LET other(l) == ~SameName(l.name, req.name)
    IN SelectSeq(CART, other) = SelectSeq(prev, other)

\* the middle line of three removed whole, the two around it left in place
C20_Witness ==
  /\ RemoveSucceeded
  /\ Len(prev) = 3
  /\ SameName(prev[2].name, req.name)
  /\ CART = <<prev[1], prev[3]>>

LineQuantity(cart, key) ==
  IF MapHas(cart, key) THEN MapGet(cart, key).quantity ELSE 0

NoQuantity(r) == ~r.raw.given

NonPositiveQuantity(r) == r.raw.given /\ r.raw.value < 1

\* C14 as stated: add_to_cart with a missing or a non-positive quantity is
\* treated as quantity 1: on a catalog pizza it adds exactly 1 to the
\* pizza's line.
C14_MissingOrNonPositiveIsOne ==
  (/\ req.op = "add_to_cart"
   /\ NoQuantity(req) \/ NonPositiveQuantity(req)
   /\ InCatalog(req.name)) =>
    /\ ~resp.isError
    /\ LineQuantity(CART, CartKey(req.name)) =
         LineQuantity(prev, CartKey(req.name)) + 1

\* C14 amended: a missing quantity is treated as 1 and adds exactly 1 to the
\* catalog pizza's line; a non-positive quantity is refused with an error
\* before the handler runs and leaves the cart as it was; no call stores or
\* adds a quantity < 1.
C14_MissingIsOneNonPositiveRefused ==
  req.op = "add_to_cart" =>
    /\ (NoQuantity(req) /\ InCatalog(req.name)) =>
         /\ ~resp.isError
         /\ LineQuantity(CART, CartKey(req.name)) =
              LineQuantity(prev, CartKey(req.name)) + 1
    /\ NonPositiveQuantity(req) => (resp.isError /\ CART = prev)
    /\ ~resp.isError =>
         LineQuantity(CART, CartKey(req.name)) >=
           LineQuantity(prev, CartKey(req.name)) + 1
    /\ Idle => \A i \in 1..Len(CART) : CART[i].quantity >= 1

\* add_to_cart("M", 0) refused while the cart holds a line for that pizza
C14_Witness ==
  /\ req.op = "add_to_cart"
  /\ req.raw = Given(0)
  /\ InCatalog(req.name)
  /\ resp.isError
  /\ MapHas(prev, CartKey(req.name))
  /\ CART = prev

\* the entity that stands for a character in HTML text
Entity(c) ==
  CASE c = "&" -> <<"&", "a", "m", "p", ";">>
    [] c = "<" -> <<"&", "l", "t", ";">>
    [] c = ">" -> <<"&", "g", "t", ";">>
    [] c = "\"" -> <<"&", "q", "u", "o", "t", ";">>
    [] c = "'" -> <<"&", "#", "3", "9", ";">>
    [] OTHER -> <<c>>

RECURSIVE Entities(_)
Entities(s) ==
  IF s = <<>> THEN <<>> ELSE Entity(Head(s)) \o Entities(Tail(s))

\* C15: the HTML page of GET / or GET /cart shows each cart line's name with
\* every < > & " ' replaced by its entity, so the page holds no raw '<' or
\* '>' (nor quote) coming from a name.
C15_HtmlEscapesNames ==
  HtmlRead =>
    /\ Len(resp.body.html.rows) = Len(CART)
    /\ \A i \in 1..Len(CART) :
         LET shown == resp.body.html.rows[i].name
         IN /\ shown = Entities(CART[i].name)
            /\ \A k \in 1..Len(shown) : shown[k] \notin {"<", ">", "\"", "'"}

\* the page of a cart whose line is named <a> shows &lt;a&gt;
C15_Witness ==
  /\ HtmlRead
  /\ Len(CART) = 1
  /\ CART[1].name = <<"<", "a", ">">>
  /\ resp.body.html.rows[1].name =
       <<"&", "l", "t", ";", "a", "&", "g", "t", ";">>

\* the lines of the catalog file, numbered as an editor numbers them
SourceLines == split(source, "\n")

DataLine(l) == trim(l) # <<>> /\ Head(trim(l)) # "#"

FieldCount(l) == Cardinality({i \in 1..Len(l) : l[i] = "|"}) + 1

TooShort(l) == DataLine(l) /\ FieldCount(l) < 4

\* C17: when a text catalog holds a line of fewer than 4 '|'-separated
\* fields, loading fails, and the line number in the error is the number of
\* such a line in the file, also when blank or '#' lines come before it.
C17_ErrorNamesSourceLine ==
  boot # "load" =>
    /\ (\E i \in 1..Len(SourceLines) : TooShort(SourceLines[i])) =>
         (boot = "exited" /\ ~catalogLoaded /\ loadError # NoError)
    /\ loadError.kind = "format" =>
         /\ loadError.line \in 1..Len(SourceLines)
         /\ TooShort(SourceLines[loadError.line])

PriceToken(l) == trim(split(l, "|")[2])

\* digits with at most one '.' or ',' among them, and at least one digit
IsDecimalNumeral(tok) ==
  /\ \A k \in 1..Len(tok) : tok[k] \in Digits \cup {".", ","}
  /\ Cardinality({k \in 1..Len(tok) : tok[k] \in {".", ","}}) <= 1
  /\ \E k \in 1..Len(tok) : tok[k] \in Digits

NonNumericPrice(l) ==
  DataLine(l) /\ FieldCount(l) >= 4 /\ ~IsDecimalNumeral(PriceToken(l))

\* C18: when a text catalog holds a line whose price field is not a decimal
\* numeral (the empty field included), loading fails with a line-numbered
\* error and produces no catalog: no pizza with such a price is ever loaded.
C18_NonNumericPriceNeverLoads ==
  (/\ boot # "load"
   /\ \E i \in 1..Len(SourceLines) : NonNumericPrice(SourceLines[i])) =>
    /\ boot = "exited"
    /\ ~catalogLoaded
    /\ PIZZAS = <<>>
    /\ loadError.line >= 1

====
